---- MODULE Spec2Model ----
(***************************************************************************)
(* A model of the numerical core of scilpy:                                *)
(*   scilpy/dwi/utils.py         extract_dwi_shell, extract_b0, rescale_dwi *)
(*   scilpy/io/gradient_table.py save_gradient_sampling_mrtrix / _fsl       *)
(*                                                                         *)
(* Conventions.  Arrays are 0-based functions, as in the source.  A DWI     *)
(* image is an array of volumes along its last axis; a volume is a tuple    *)
(* of voxel values.  b-values are fixed-point numbers in tenths, so that a  *)
(* b-value with a fractional part exists.  Floating-point results of a      *)
(* division are exact rationals <<num, den>> in lowest terms; <<0, 0>> is   *)
(* NaN.  Rounding of binary floating point is not modelled.                 *)
(***************************************************************************)
EXTENDS Integers, Sequences, FiniteSets, TLC

VARIABLES
    pc,                 \* position of the running function
    raised,             \* the exception that ended the call, or "none"
    reads,              \* volumes of dwi loaded so far (a set of indices)
    dwi, block_size, vol_it, indices,
    bvals, bvecs,
    bvals_to_extract, tol, shell_data, output_bvals, output_bvecs, writes,
    b0_mask, extract_in_cluster, strategy, b0_clusters, cluster_it,
    cluster, idx, output_b0,
    in_data, bc_data, in_min, in_max, bc_min, bc_max, slope, chunk, i,
    bc_arg,             \* bc_data as it was passed, before the in-place writes
    shell_idx, files,
    in_tractogram, remove_single_point, sft, ori_len, new_sft, removed_msg,
    existing, sh, full_basis, out_prefix, overwrite, rish, orders,
    layout, t1s, fs_inputs, clean, bids_data

ioVars      == <<dwi, block_size, vol_it, indices>>
tableVars   == <<bvals, bvecs>>
shellVars   == <<bvals_to_extract, tol, shell_data, output_bvals,
                 output_bvecs, writes>>
b0Vars      == <<b0_mask, extract_in_cluster, strategy, b0_clusters,
                 cluster_it, cluster, idx, output_b0>>
rescaleVars == <<in_data, bc_data, in_min, in_max, bc_min, bc_max, slope,
                 chunk, i, bc_arg>>
gradVars    == <<shell_idx, files>>
tractVars   == <<in_tractogram, remove_single_point, sft, ori_len, new_sft,
                 removed_msg>>
rishVars    == <<existing, sh, full_basis, out_prefix, overwrite, rish, orders>>
bidsVars    == <<layout, t1s, fs_inputs, clean, bids_data>>
scriptVars  == <<tractVars, rishVars, bidsVars>>
vars == <<pc, raised, reads, ioVars, tableVars, shellVars, b0Vars,
          rescaleVars, gradVars, scriptVars>>

\* A variable the running function does not use, or has not assigned yet.
Unset == "unset"
\* An optional integer argument: None, or a value.
None    == <<>>
Some(x) == <<x>>

---------------------------------------------------------------------------
(* Bounds of the model. *)
MaxShellVolumes == 3
MaxB0Volumes    == 5
MaxRescaleLen   == 3
MaxDirections   == 2

---------------------------------------------------------------------------
(* Arrays and sequences. *)

Size(a) == Cardinality(DOMAIN a)

\* A TLA+ sequence as a 0-based array.
Arr(s) == [k \in 0 .. Len(s) - 1 |-> s[k + 1]]

Min2(a, b) == IF a <= b THEN a ELSE b

RECURSIVE RangeSeq(_, _)
\* list(range(a, b))
RangeSeq(a, b) == IF a >= b THEN <<>> ELSE <<a>> \o RangeSeq(a + 1, b)

SeqElems(s) == {s[k] : k \in 1 .. Len(s)}

RECURSIVE Insert(_, _)
Insert(x, s) ==
    IF s = <<>> THEN <<x>>
    ELSE IF x <= Head(s) THEN <<x>> \o s
    ELSE <<Head(s)>> \o Insert(x, Tail(s))

RECURSIVE np_sort(_)
\* np.sort of a 1-D integer array: ascending, duplicates kept.
np_sort(s) == IF s = <<>> THEN <<>> ELSE Insert(Head(s), np_sort(Tail(s)))

RECURSIVE np_unique(_)
\* np.unique of a sorted array: the first of every run of equal elements.
np_unique(s) ==
    IF Len(s) <= 1 THEN s
    ELSE IF s[1] = s[2] THEN np_unique(Tail(s))
    ELSE <<s[1]>> \o np_unique(Tail(s))

RECURSIVE np_hstack(_)
\* np.hstack of a non-empty list of 1-D arrays: their concatenation.
np_hstack(ss) == IF ss = <<>> THEN <<>> ELSE Head(ss) \o np_hstack(Tail(ss))

\* The positions of the true entries of a boolean array, ascending.
TruePositions(mask) ==
    SelectSeq(RangeSeq(0, Size(mask)), LAMBDA k : mask[k])

\* arr[..., mask] = vals with a boolean mask: legal when vals has one volume
\* per true entry of the mask (or a single volume, which is broadcast).
MaskAssignOk(mask, vals) ==
    \/ Len(TruePositions(mask)) = Len(vals)
    \/ Len(vals) = 1

MaskAssign(arr, mask, vals) ==
    LET pos == TruePositions(mask)
        rank(k) == CHOOSE r \in 1 .. Len(pos) : pos[r] = k
    IN  [k \in DOMAIN arr |->
            IF mask[k]
            THEN IF Len(vals) = 1 THEN vals[1] ELSE vals[rank(k)]
            ELSE arr[k]]

---------------------------------------------------------------------------
(* Floating-point numbers as exact rationals <<num, den>>, den > 0, in      *)
(* lowest terms; NaN is <<0, 0>> and +/-infinity <<+/-1, 0>>.               *)

Abs(x) == IF x < 0 THEN -x ELSE x

Sign(x) == IF x < 0 THEN -1 ELSE IF x = 0 THEN 0 ELSE 1

RECURSIVE Gcd(_, _)
Gcd(a, b) == IF b = 0 THEN a ELSE Gcd(b, a % b)

\* n / d for integers n and d: x / 0 is NaN for x = 0, else an infinity.
Quotient(n, d) ==
    IF d = 0 THEN <<Sign(n), 0>>
    ELSE LET g == Gcd(Abs(n), Abs(d))
         IN  <<Sign(d) * (n \div g), Abs(d) \div g>>

NaN == <<0, 0>>

ToFloat(x) == <<x, 1>>

IsFinite(a) == a[2] # 0

FloatAdd(a, b) ==
    IF IsFinite(a) /\ IsFinite(b)
    THEN Quotient(a[1] * b[2] + b[1] * a[2], a[2] * b[2])
    ELSE IF IsFinite(a) THEN b
    ELSE IF IsFinite(b) \/ a = b THEN a
    ELSE NaN

FloatNeg(a) == <<-a[1], a[2]>>

FloatSub(a, b) == FloatAdd(a, FloatNeg(b))

FloatMul(a, b) ==
    IF IsFinite(a) /\ IsFinite(b) THEN Quotient(a[1] * b[1], a[2] * b[2])
    ELSE <<Sign(a[1]) * Sign(b[1]), 0>>

FloatDiv(a, b) ==
    IF IsFinite(a) /\ IsFinite(b) THEN Quotient(a[1] * b[2], a[2] * b[1])
    ELSE IF IsFinite(a) /\ b # NaN THEN ToFloat(0)
    ELSE IF IsFinite(b) /\ a # NaN
         THEN <<a[1] * (IF b[1] < 0 THEN -1 ELSE 1), 0>>
    ELSE NaN

\* a < b for finite a and b.
FloatLess(a, b) == a[1] * b[2] < b[1] * a[2]

---------------------------------------------------------------------------
(* The image. *)

\* The test images: volume t of image d.  Image 1 has pairwise distinct,
\* non-zero volumes; image 2 has a zero voxel and voxel sums that identify
\* the set of volumes summed.
Volume(d, t) == IF d = 1 THEN <<10 * (t + 1) + 1, 10 * (t + 1) + 2>>
                ELSE <<2 ^ t, 0>>

Image(d, n) == [t \in 0 .. n - 1 |-> Volume(d, t)]

ImageIds == {1, 2}

\* np.zeros(dwi.shape[:-1]): one volume of zeros.
ZeroVolume == <<0, 0>>

RECURSIVE Blocks(_, _, _)
Blocks(blocksize, start, end) ==
    IF start >= end THEN <<>>
    ELSE <<RangeSeq(start, Min2(start + blocksize, end))>>
         \o Blocks(blocksize, start + blocksize, end)

\* volume_iterator(img, blocksize, start, end): the index lists of the
\* blocks of blocksize volumes that stream volumes start .. end - 1 in order
\* (the last block may be shorter).  The data of a block is loaded when the
\* block is yielded.
volume_iterator(img, blocksize, start, end) == Blocks(blocksize, start, end)

\* The data of a block: img.dataobj[..., vi[0]:vi[-1] + 1].
BlockData(img, vi) == [k \in 1 .. Len(vi) |-> img[vi[k]]]

---------------------------------------------------------------------------
(* extract_dwi_shell *)

\* A number of whole b-value units as a b-value (in tenths).
Tenths(x) == 10 * x

\* ndarray.astype(int) on a float: truncation toward zero.
astype_int(v) == IF v >= 0 THEN v \div 10 ELSE -((-v) \div 10)

\* get_shell_indices(bvals, shell, tol): the indices of the volumes whose
\* b-value lies in [shell - tol, shell + tol], ascending.
get_shell_indices(bv, shell, t) ==
    SelectSeq(RangeSeq(0, Size(bv)),
              LAMBDA k : /\ Tenths(shell - t) <= bv[k]
                         /\ bv[k] <= Tenths(shell + t))

\* The list comprehension of the per-shell index arrays.
PerShellIndices(bv, shells, t) ==
    [s \in 1 .. Len(shells) |-> get_shell_indices(bv, shells[s], t)]

ShellIndicesNoUnique(bv, shells, t) ==
    np_sort(np_hstack(PerShellIndices(bv, shells, t)))

ShellIndicesFirstOnly(bv, shells, t) ==
    np_unique(np_sort(np_hstack(SubSeq(PerShellIndices(bv, shells, t), 1, 1))))

\* indices = np.unique(np.sort(np.hstack(indices)))
ShellIndices(bv, shells, t) ==
    np_unique(np_sort(np_hstack(PerShellIndices(bv, shells, t))))

NoVolumeSelectedNever(ind) == FALSE

\* if len(indices) == 0: raise ValueError
NoVolumeSelected(ind) == Size(ind) = 0

\* in_volume = np.array([i in vi for i in indices])
InVolume(ind, vi) == [k \in DOMAIN ind |-> ind[k] \in SeqElems(vi)]

\* in_data = np.array([i in indices for i in vi]); data[..., in_data]
SelectedData(ind, vi, data) ==
    LET elems == {ind[k] : k \in DOMAIN ind}
        keep  == SelectSeq(RangeSeq(1, Len(vi) + 1),
                           LAMBDA j : vi[j] \in elems)
    IN  [j \in 1 .. Len(keep) |-> data[keep[j]]]

ShellBlockAssignFresh(sd, ind, vi, data) ==
    MaskAssign([k \in DOMAIN sd |-> ZeroVolume], InVolume(ind, vi),
               SelectedData(ind, vi, data))

\* shell_data[..., in_volume] = data[..., in_data]
ShellBlockAssign(sd, ind, vi, data) ==
    MaskAssign(sd, InVolume(ind, vi), SelectedData(ind, vi, data))

ShellBlockAssignOk(ind, vi, data) ==
    MaskAssignOk(InVolume(ind, vi), SelectedData(ind, vi, data))

\* The b-values of the test inputs, in tenths: 979.5, 980, 1000, 1020 and
\* 1020.5.
BvalDomain == {9795, 9800, 10000, 10200, 10205}

\* The requested lists of b-values: none, one shell, two shells whose
\* tolerance intervals overlap (in both orders), a b-value asked twice, a
\* b-value no volume has.
ShellLists == {<<>>, <<1000>>, <<1000, 1020>>, <<1020, 1000>>,
               <<1000, 1000>>, <<3000>>, <<3000, 1020>>}

TolDomain == {0, 20}

\* The b-vector of volume t (one row of bvecs).
Bvec(t) == <<t + 1, -t, 2 * t>>

IdleShell ==
    /\ bvals_to_extract = Unset /\ tol = Unset /\ shell_data = Unset
    /\ output_bvals = Unset /\ output_bvecs = Unset /\ writes = Unset

IdleB0 ==
    /\ b0_mask = Unset /\ extract_in_cluster = Unset /\ strategy = Unset
    /\ b0_clusters = Unset /\ cluster_it = Unset /\ cluster = Unset
    /\ idx = Unset /\ output_b0 = Unset

IdleRescale ==
    /\ in_data = Unset /\ bc_data = Unset /\ in_min = Unset
    /\ in_max = Unset /\ bc_min = Unset /\ bc_max = Unset /\ slope = Unset
    /\ chunk = Unset /\ i = Unset /\ bc_arg = Unset

IdleGrad == shell_idx = Unset /\ files = Unset

IdleTract ==
    /\ in_tractogram = Unset /\ remove_single_point = Unset /\ sft = Unset
    /\ ori_len = Unset /\ new_sft = Unset /\ removed_msg = Unset

IdleRish ==
    /\ existing = Unset /\ sh = Unset /\ full_basis = Unset
    /\ out_prefix = Unset /\ overwrite = Unset /\ rish = Unset
    /\ orders = Unset

IdleBids ==
    /\ layout = Unset /\ t1s = Unset /\ fs_inputs = Unset /\ clean = Unset
    /\ bids_data = Unset

IdleScripts == IdleTract /\ IdleRish /\ IdleBids

IdleIo == dwi = Unset /\ block_size = Unset /\ vol_it = Unset
          /\ indices = Unset /\ reads = {}

\* The call extract_dwi_shell(dwi, bvals, bvecs, bvals_to_extract, tol,
\* block_size) on an image of n volumes.
InitShell ==
    \E n \in 1 .. MaxShellVolumes, d \in ImageIds :
      \E bv \in [0 .. n - 1 -> BvalDomain], shells \in ShellLists,
         t \in TolDomain,
         bs \in {None} \cup {Some(b) : b \in 1 .. n + 1} :
        /\ pc = "shell_start" /\ raised = "none" /\ reads = {}
        /\ dwi = Image(d, n) /\ block_size = bs
        /\ bvals = bv /\ bvecs = [k \in 0 .. n - 1 |-> Bvec(k)]
        /\ bvals_to_extract = shells /\ tol = t
        /\ vol_it = Unset /\ indices = Unset
        /\ shell_data = Unset /\ output_bvals = Unset
        /\ output_bvecs = Unset /\ writes = Unset
        /\ IdleB0 /\ IdleRescale /\ IdleGrad /\ IdleScripts

\* Lines 121-143: the indices, the ValueError, the default block size, the
\* zero-filled output and the iterator.  np.hstack of an empty list raises
\* ValueError too.
ShellStart ==
    /\ pc = "shell_start"
    /\ IF bvals_to_extract = <<>>
       THEN /\ raised' = "ValueError" /\ pc' = "raised"
            /\ UNCHANGED <<indices, block_size, shell_data, vol_it, writes>>
       ELSE LET ind == Arr(ShellIndices(bvals, bvals_to_extract, tol))
                bs  == IF block_size = None THEN Some(Size(dwi))
                       ELSE block_size
            IN  /\ indices' = ind
                /\ IF NoVolumeSelected(ind)
                   THEN /\ raised' = "ValueError" /\ pc' = "raised"
                        /\ UNCHANGED <<block_size, shell_data, vol_it,
                                       writes>>
                   ELSE /\ block_size' = bs
                        /\ shell_data' = [k \in DOMAIN ind |-> ZeroVolume]
                        /\ writes' = [k \in DOMAIN ind |-> 0]
                        /\ vol_it' = volume_iterator(dwi, bs[1], 0, Size(dwi))
                        /\ pc' = "shell_loop"
                        /\ UNCHANGED raised
    /\ UNCHANGED <<reads, dwi, tableVars, bvals_to_extract, tol,
                   output_bvals, output_bvecs, b0Vars, rescaleVars, gradVars,
                   scriptVars>>

\* Lines 144-147: one iteration of the loop over the blocks.
ShellBlock ==
    /\ pc = "shell_loop" /\ vol_it # <<>>
    /\ LET vi   == Head(vol_it)
           data == BlockData(dwi, vi)
       IN  /\ reads' = reads \cup SeqElems(vi)
           /\ vol_it' = Tail(vol_it)
           /\ IF ShellBlockAssignOk(indices, vi, data)
              THEN /\ shell_data' = ShellBlockAssign(shell_data, indices,
                                                     vi, data)
                   /\ writes' = [k \in DOMAIN writes |->
                                   IF InVolume(indices, vi)[k]
                                   THEN writes[k] + 1 ELSE writes[k]]
                   /\ UNCHANGED <<pc, raised>>
              ELSE /\ raised' = "ValueError" /\ pc' = "raised"
                   /\ UNCHANGED <<shell_data, writes>>
    /\ UNCHANGED <<dwi, block_size, indices, tableVars, bvals_to_extract,
                   tol, output_bvals, output_bvecs, b0Vars, rescaleVars,
                   gradVars, scriptVars>>

\* Lines 149-153: the selected b-values (one row) and b-vectors; return.
ShellReturn ==
    /\ pc = "shell_loop" /\ vol_it = <<>>
    /\ output_bvals' =
           Arr(<<[k \in DOMAIN indices |-> astype_int(bvals[indices[k]])]>>)
    /\ output_bvecs' = [k \in DOMAIN indices |-> bvecs[indices[k]]]
    /\ pc' = "done"
    /\ UNCHANGED <<raised, reads, ioVars, tableVars, bvals_to_extract, tol,
                   shell_data, writes, b0Vars, rescaleVars, gradVars,
                   scriptVars>>

NextShell == ShellStart \/ ShellBlock \/ ShellReturn

SpecShell == InitShell /\ [][NextShell]_vars

---------------------------------------------------------------------------
(* Claims about extract_dwi_shell, checked under SpecShell. *)

\* Volume t has a b-value within tol of a requested b-value.
Requested(t) ==
    \E s \in 1 .. Len(bvals_to_extract) :
        /\ Tenths(bvals_to_extract[s] - tol) <= bvals[t]
        /\ bvals[t] <= Tenths(bvals_to_extract[s] + tol)

RequestedVolumes == {t \in DOMAIN bvals : Requested(t)}

IndicesComputed == pc \in {"shell_loop", "done"}

StrictlyIncreasing(a) ==
    \A k \in DOMAIN a : (k + 1) \in DOMAIN a => a[k] < a[k + 1]

\* C1 as stated: the returned indices are strictly increasing, and at every
\* position k the returned volume, b-value and b-vector are those of input
\* volume indices[k].
C1_AsStated ==
    /\ IndicesComputed => StrictlyIncreasing(indices)
    /\ pc = "done" =>
         \A k \in DOMAIN indices :
            /\ shell_data[k] = dwi[indices[k]]
            /\ Tenths(output_bvals[0][k]) = bvals[indices[k]]
            /\ output_bvecs[k] = bvecs[indices[k]]

\* C1 amended: as C1, except that output_bvals[0][k] is bvals[indices[k]]
\* truncated to an integer.
C1_SameOrderTruncatedBvals ==
    /\ IndicesComputed => StrictlyIncreasing(indices)
    /\ pc = "done" =>
         /\ DOMAIN shell_data = DOMAIN indices
         /\ DOMAIN output_bvals = {0}
         /\ DOMAIN output_bvals[0] = DOMAIN indices
         /\ DOMAIN output_bvecs = DOMAIN indices
         /\ \A k \in DOMAIN indices :
              /\ shell_data[k] = dwi[indices[k]]
              /\ Tenths(output_bvals[0][k]) <= bvals[indices[k]]
              /\ bvals[indices[k]] < Tenths(output_bvals[0][k] + 1)
              /\ output_bvecs[k] = bvecs[indices[k]]

\* Two overlapping shells select the same volume, a selected volume has a
\* fractional b-value, and the call returned.
C1_Witness ==
    /\ pc = "done"
    /\ bvals_to_extract = <<1020, 1000>> /\ tol = 20
    /\ Size(dwi) = 3 /\ block_size = Some(2)
    /\ bvals[0] = 10205 /\ bvals[1] = 9795 /\ bvals[2] = 10000
    /\ indices = Arr(<<0, 2>>)

\* C2: whatever the block size, the four results equal those of the call
\* that loads the whole file as one block; every output slot is written
\* exactly once (so none keeps its initial zero).
C2_BlockSizeIndependent ==
    pc = "done" =>
      LET whole == RangeSeq(0, Size(dwi))
          ind   == Arr(ShellIndices(bvals, bvals_to_extract, tol))
          zeros == [k \in DOMAIN ind |-> ZeroVolume]
      IN  /\ indices = ind
          /\ shell_data =
               ShellBlockAssign(zeros, ind, whole, BlockData(dwi, whole))
          /\ output_bvals =
               Arr(<<[k \in DOMAIN ind |-> astype_int(bvals[ind[k]])]>>)
          /\ output_bvecs = [k \in DOMAIN ind |-> bvecs[ind[k]]]
          /\ \A k \in DOMAIN ind : writes[k] = 1
          /\ \A k \in DOMAIN ind :
               dwi[ind[k]] # ZeroVolume => shell_data[k] # ZeroVolume

\* A block size that does not divide the number of volumes, with selected
\* volumes in both blocks.
C2_Witness ==
    /\ pc = "done" /\ Size(dwi) = 3 /\ block_size = Some(2)
    /\ indices = Arr(<<0, 1, 2>>)

\* C3: the selected volumes are exactly those whose b-value lies in
\* [b - tol, b + tol] for some requested b, and the returned data holds
\* exactly those volumes.
C3_ExactlyWithinTolerance ==
    /\ IndicesComputed =>
         {indices[k] : k \in DOMAIN indices} = RequestedVolumes
    /\ pc = "done" =>
         /\ Size(shell_data) = Cardinality(RequestedVolumes)
         /\ \A t \in RequestedVolumes :
              \E k \in DOMAIN shell_data : shell_data[k] = dwi[t]

\* Volumes at both ends of the interval are extracted and volumes just
\* outside it are not.
C3_Witness ==
    /\ pc = "done" /\ bvals_to_extract = <<1000>> /\ tol = 20
    /\ Size(dwi) = 3
    /\ bvals[0] = 9800 /\ bvals[1] = 10205 /\ bvals[2] = 10200
    /\ indices = Arr(<<0, 2>>)

\* C4: with no volume within tolerance of a requested b-value the call ends
\* with ValueError, having loaded no volume and assigned no result; with at
\* least one such volume it never raises.
C4_ValueErrorIffNoMatch ==
    /\ (pc # "shell_start" /\ RequestedVolumes = {}) =>
         /\ raised = "ValueError" /\ pc = "raised"
         /\ reads = {}
         /\ shell_data = Unset /\ output_bvals = Unset
         /\ output_bvecs = Unset
    /\ RequestedVolumes # {} => raised = "none" /\ pc # "raised"

\* A request that matches no volume has raised.
C4_Witness ==
    /\ pc = "raised" /\ raised = "ValueError"
    /\ bvals_to_extract = <<3000>> /\ Size(dwi) = 3

---------------------------------------------------------------------------
(* extract_b0 *)

Strategies == {"MEAN", "FIRST", "ALL"}

\* A volume of the float output array.
FloatVolume(vol) == [v \in DOMAIN vol |-> ToFloat(vol[v])]

RECURSIVE SumVolumes(_)
\* np.sum(data, -1): the voxelwise sum of the volumes of a block.
SumVolumes(data) ==
    IF data = <<>> THEN ZeroVolume
    ELSE LET rest == SumVolumes(Tail(data))
         IN  [v \in DOMAIN ZeroVolume |-> Head(data)[v] + rest[v]]

\* data.squeeze() of a block of one volume: the volume.
Squeeze(data) == data[1]

\* dwi.dataobj[..., t:t + 1]
OneVolume(img, t) == BlockData(img, <<t>>)

RECURSIVE RunsFrom(_, _)
RunsFrom(mask, t) ==
    IF t >= Size(mask) THEN <<>>
    ELSE IF ~mask[t] THEN RunsFrom(mask, t + 1)
    ELSE LET stop == CHOOSE e \in t + 1 .. Size(mask) :
                        /\ \A u \in t .. e - 1 : mask[u]
                        /\ (e = Size(mask) \/ ~mask[e])
         IN  <<[start |-> t, stop |-> stop]>> \o RunsFrom(mask, stop)

RECURSIVE SinglesFrom(_, _)
SinglesFrom(mask, t) ==
    IF t >= Size(mask) THEN <<>>
    ELSE IF ~mask[t] THEN SinglesFrom(mask, t + 1)
    ELSE <<[start |-> t, stop |-> t + 1]>> \o SinglesFrom(mask, t + 1)

B0ClustersSingles(mask) == SinglesFrom(mask, 0)

\* np.ma.notmasked_contiguous of the mask with its false entries masked:
\* the slices of the maximal runs of true entries, in order.
B0Clusters(mask) == RunsFrom(mask, 0)

FirstIndexMax(ind) ==
    CHOOSE m \in {ind[k] : k \in DOMAIN ind} : \A k \in DOMAIN ind : ind[k] <= m

\* idx = np.min(indices)
FirstIndex(ind) ==
    CHOOSE m \in {ind[k] : k \in DOMAIN ind} : \A k \in DOMAIN ind : m <= ind[k]

\* time_d: len(indices) for ALL, else len(b0_clusters).
TimeD(strat, ind, clusters) ==
    IF strat = "ALL" THEN Size(ind) ELSE Len(clusters)

B0AllAssignFromZero(out, ind, vi, data) ==
    [k \in DOMAIN out |->
        IF k < Len(data) THEN FloatVolume(data[k + 1]) ELSE out[k]]

\* output_b0[..., in_volume] = data
B0AllAssign(out, ind, vi, data) ==
    MaskAssign(out, InVolume(ind, vi),
               [j \in 1 .. Len(data) |-> FloatVolume(data[j])])

B0AllAssignOk(ind, vi, data) == MaskAssignOk(InVolume(ind, vi), data)

\* vol += np.sum(data, -1)
Accumulate(vol, data) ==
    [v \in DOMAIN vol |-> FloatAdd(vol[v], ToFloat(SumVolumes(data)[v]))]

\* vol /= k
DivideVolume(vol, k) ==
    [v \in DOMAIN vol |-> FloatDiv(vol[v], ToFloat(k))]

ClusterMeanDivisorStopOnly(c) == c.stop

\* cluster.stop - cluster.start
ClusterMeanDivisor(c) == c.stop - c.start

MeanDivisorClusters(ind, clusters) == Len(clusters)

\* len(indices)
MeanDivisor(ind, clusters) == Size(ind)

\* The call extract_b0(dwi, b0_mask, extract_in_cluster, strategy,
\* block_size) on an image of n volumes.
InitB0 ==
    \E n \in 1 .. MaxB0Volumes, d \in ImageIds :
      \E mask \in [0 .. n - 1 -> BOOLEAN], c \in BOOLEAN,
         strat \in Strategies,
         bs \in {None} \cup {Some(b) : b \in 1 .. n + 1} :
        /\ pc = "b0_start" /\ raised = "none" /\ reads = {}
        /\ dwi = Image(d, n) /\ block_size = bs
        /\ b0_mask = mask /\ extract_in_cluster = c /\ strategy = strat
        /\ vol_it = Unset /\ indices = Unset
        /\ b0_clusters = Unset /\ cluster_it = Unset /\ cluster = Unset
        /\ idx = Unset /\ output_b0 = Unset
        /\ bvals = Unset /\ bvecs = Unset
        /\ IdleShell /\ IdleRescale /\ IdleGrad /\ IdleScripts

b0Inputs == <<dwi, b0_mask, extract_in_cluster, strategy>>
otherThanB0 == <<tableVars, shellVars, rescaleVars, gradVars, scriptVars>>

\* Lines 185-205 and 226: the indices, the default block size, the FIRST
\* strategy over the whole file, the clusters and the zero-filled output.
\* np.min of an empty array raises ValueError.
B0Start ==
    /\ pc = "b0_start"
    /\ LET ind == Arr(TruePositions(b0_mask))
           bs  == IF block_size = None THEN Some(Size(dwi)) ELSE block_size
           cl  == B0Clusters(b0_mask)
       IN  /\ indices' = ind
           /\ block_size' = bs
           /\ IF ~extract_in_cluster /\ strategy = "FIRST"
              THEN /\ UNCHANGED <<b0_clusters, cluster_it>>
                   /\ IF Size(ind) = 0
                      THEN /\ raised' = "ValueError" /\ pc' = "raised"
                           /\ UNCHANGED <<idx, output_b0, reads>>
                      ELSE /\ idx' = FirstIndex(ind)
                           /\ reads' = reads \cup {idx'}
                           /\ output_b0' = Squeeze(OneVolume(dwi, idx'))
                           /\ pc' = "done"
                           /\ UNCHANGED raised
              ELSE /\ b0_clusters' = cl
                   /\ cluster_it' = cl
                   /\ UNCHANGED <<idx, raised, reads>>
                   /\ IF extract_in_cluster \/ strategy = "ALL"
                      THEN /\ output_b0' =
                                [k \in 0 .. TimeD(strategy, ind, cl) - 1 |->
                                    FloatVolume(ZeroVolume)]
                           /\ pc' = "b0_clusters"
                      ELSE /\ output_b0' = FloatVolume(ZeroVolume)
                           /\ pc' = "b0_mean"
    /\ UNCHANGED <<b0Inputs, vol_it, cluster, otherThanB0>>

\* Lines 207-213: the next cluster of the enumerate loop; with FIRST its
\* first volume is loaded and stored, otherwise its iterator is created.
B0NextCluster ==
    /\ pc = "b0_clusters" /\ cluster_it # <<>>
    /\ LET c == Head(cluster_it)
           k == Len(b0_clusters) - Len(cluster_it)
       IN  /\ cluster' = c
           /\ idx' = k
           /\ cluster_it' = Tail(cluster_it)
           /\ IF strategy = "FIRST"
              THEN /\ reads' = reads \cup {c.start}
                   /\ output_b0' =
                        [output_b0 EXCEPT ![k] =
                            FloatVolume(Squeeze(OneVolume(dwi, c.start)))]
                   /\ UNCHANGED <<vol_it, pc>>
              ELSE /\ vol_it' = volume_iterator(dwi, block_size[1],
                                                c.start, c.stop)
                   /\ pc' = "b0_blocks"
                   /\ UNCHANGED <<reads, output_b0>>
    /\ UNCHANGED <<raised, b0Inputs, block_size, indices, b0_clusters,
                   otherThanB0>>

\* Lines 215-220: one block of the current cluster.
B0Block ==
    /\ pc = "b0_blocks" /\ vol_it # <<>>
    /\ LET vi   == Head(vol_it)
           data == BlockData(dwi, vi)
       IN  /\ reads' = reads \cup SeqElems(vi)
           /\ vol_it' = Tail(vol_it)
           /\ IF strategy = "ALL"
              THEN IF B0AllAssignOk(indices, vi, data)
                   THEN /\ output_b0' = B0AllAssign(output_b0, indices, vi,
                                                    data)
                        /\ UNCHANGED <<pc, raised>>
                   ELSE /\ raised' = "ValueError" /\ pc' = "raised"
                        /\ UNCHANGED output_b0
              ELSE /\ output_b0' =
                        [output_b0 EXCEPT ![idx] = Accumulate(@, data)]
                   /\ UNCHANGED <<pc, raised>>
    /\ UNCHANGED <<b0Inputs, block_size, indices, b0_clusters, cluster_it,
                   cluster, idx, otherThanB0>>

\* Lines 222-223: the end of a cluster's blocks; the mean of the cluster.
B0ClusterEnd ==
    /\ pc = "b0_blocks" /\ vol_it = <<>>
    /\ output_b0' =
         IF strategy = "MEAN"
         THEN [output_b0 EXCEPT
                 ![idx] = DivideVolume(@, ClusterMeanDivisor(cluster))]
         ELSE output_b0
    /\ pc' = "b0_clusters"
    /\ UNCHANGED <<raised, reads, b0Inputs, block_size, vol_it, indices,
                   b0_clusters, cluster_it, cluster, idx, otherThanB0>>

\* Lines 227-229: the next cluster of the loop of the overall mean.
B0MeanNextCluster ==
    /\ pc = "b0_mean" /\ cluster_it # <<>>
    /\ cluster' = Head(cluster_it)
    /\ cluster_it' = Tail(cluster_it)
    /\ vol_it' = volume_iterator(dwi, block_size[1], cluster'.start,
                                 cluster'.stop)
    /\ pc' = "b0_mean_blocks"
    /\ UNCHANGED <<raised, reads, b0Inputs, block_size, indices,
                   b0_clusters, idx, output_b0, otherThanB0>>

\* Lines 231-232: one block of the current cluster, added to the sum.
B0MeanBlock ==
    /\ pc = "b0_mean_blocks" /\ vol_it # <<>>
    /\ reads' = reads \cup SeqElems(Head(vol_it))
    /\ output_b0' = Accumulate(output_b0, BlockData(dwi, Head(vol_it)))
    /\ vol_it' = Tail(vol_it)
    /\ UNCHANGED <<pc, raised, b0Inputs, block_size, indices, b0_clusters,
                   cluster_it, cluster, idx, otherThanB0>>

\* The end of the inner loop of line 231.
B0MeanClusterEnd ==
    /\ pc = "b0_mean_blocks" /\ vol_it = <<>>
    /\ pc' = "b0_mean"
    /\ UNCHANGED <<raised, reads, b0Inputs, block_size, vol_it, indices,
                   b0_clusters, cluster_it, cluster, idx, output_b0,
                   otherThanB0>>

\* Lines 234-236: the overall mean; return.
B0MeanReturn ==
    /\ pc = "b0_mean" /\ cluster_it = <<>>
    /\ output_b0' = DivideVolume(output_b0, MeanDivisor(indices, b0_clusters))
    /\ pc' = "done"
    /\ UNCHANGED <<raised, reads, b0Inputs, block_size, vol_it, indices,
                   b0_clusters, cluster_it, cluster, idx, otherThanB0>>

\* Line 236 after the enumerate loop: return.
B0Return ==
    /\ pc = "b0_clusters" /\ cluster_it = <<>>
    /\ pc' = "done"
    /\ UNCHANGED <<raised, reads, ioVars, b0Vars, otherThanB0>>

NextB0 ==
    \/ B0Start \/ B0NextCluster \/ B0Block \/ B0ClusterEnd
    \/ B0MeanNextCluster \/ B0MeanBlock \/ B0MeanClusterEnd
    \/ B0MeanReturn \/ B0Return

SpecB0 == InitB0 /\ [][NextB0]_vars

---------------------------------------------------------------------------
(* Claims about extract_b0, checked under SpecB0. *)

B0Set == {t \in DOMAIN b0_mask : b0_mask[t]}

RECURSIVE VoxelSum(_, _)
\* The sum of voxel v over the volumes of the set S of the image.
VoxelSum(S, v) ==
    IF S = {} THEN 0
    ELSE LET t == CHOOSE u \in S : TRUE
         IN  dwi[t][v] + VoxelSum(S \ {t}, v)

\* The voxelwise mean of the volumes of S.
MeanOf(S) == [v \in DOMAIN ZeroVolume |-> Quotient(VoxelSum(S, v), Cardinality(S))]

\* The starts of the maximal runs of b0 volumes, and the run that starts at a.
RunStarts == {a \in B0Set : a = 0 \/ (a - 1) \notin B0Set}

RunOf(a) == {t \in B0Set : t >= a /\ \A u \in a .. t : u \in B0Set}

\* The k-th smallest element of a set of integers (k from 0).
Kth(S, k) == CHOOSE a \in S : Cardinality({b \in S : b < a}) = k

\* C5: MEAN over the whole file: every voxel is the sum of the b0 volumes
\* divided by their number, whatever the block size and the layout.
C5_MeanOfAllB0 ==
    (pc = "done" /\ strategy = "MEAN" /\ ~extract_in_cluster) =>
        output_b0 = MeanOf(B0Set)

\* Two separated runs of b0 volumes, a block that ends inside a run, and a
\* mean that is not an integer.
C5_Witness ==
    /\ pc = "done" /\ strategy = "MEAN" /\ ~extract_in_cluster
    /\ B0Set = {0, 2, 3} /\ Size(dwi) = 5 /\ block_size = Some(1)
    /\ output_b0 = <<Quotient(83, 3), Quotient(86, 3)>>
    /\ reads = {0, 2, 3}

\* C6: in clusters, MEAN and FIRST give one volume per maximal run of b0
\* volumes, in the order of the runs: the mean of the run, or its first
\* volume.
C6_OnePerCluster ==
    (pc = "done" /\ extract_in_cluster /\ strategy \in {"MEAN", "FIRST"}) =>
        /\ DOMAIN output_b0 = 0 .. Cardinality(RunStarts) - 1
        /\ \A k \in DOMAIN output_b0 :
             output_b0[k] =
                IF strategy = "MEAN" THEN MeanOf(RunOf(Kth(RunStarts, k)))
                ELSE FloatVolume(dwi[Kth(RunStarts, k)])

\* Two runs, the second of two volumes cut by the block size, MEAN.
C6_Witness ==
    /\ pc = "done" /\ extract_in_cluster /\ strategy = "MEAN"
    /\ B0Set = {0, 2, 3, 4} /\ Size(dwi) = 5 /\ block_size = Some(2)
    /\ Size(output_b0) = 2
    /\ output_b0[1] = <<ToFloat(41), ToFloat(42)>>

\* The same layout with FIRST.
C6_WitnessFirst ==
    /\ pc = "done" /\ extract_in_cluster /\ strategy = "FIRST"
    /\ B0Set = {0, 2, 3, 4} /\ Size(output_b0) = 2

\* C7: ALL returns every b0 volume and only those, in the order of the
\* file, in clusters or not and whatever the block size.
C7_AllB0Volumes ==
    (pc = "done" /\ strategy = "ALL") =>
        /\ DOMAIN output_b0 = 0 .. Cardinality(B0Set) - 1
        /\ \A k \in DOMAIN output_b0 :
             output_b0[k] = FloatVolume(dwi[Kth(B0Set, k)])

\* A run of three b0 volumes read in blocks of two, after a first run.
C7_Witness ==
    /\ pc = "done" /\ strategy = "ALL" /\ ~extract_in_cluster
    /\ B0Set = {0, 2, 3, 4} /\ Size(dwi) = 5 /\ block_size = Some(2)
    /\ Size(output_b0) = 4

\* C8: FIRST over the whole file returns the volume at the smallest b0
\* index and loads no other volume.
C8_FirstB0Only ==
    (pc = "done" /\ strategy = "FIRST" /\ ~extract_in_cluster) =>
        /\ B0Set # {}
        /\ output_b0 = dwi[Kth(B0Set, 0)]
        /\ reads = {Kth(B0Set, 0)}

\* The first b0 volume is neither the first volume nor the only b0 volume.
C8_Witness ==
    /\ pc = "done" /\ strategy = "FIRST" /\ ~extract_in_cluster
    /\ B0Set = {1, 3} /\ block_size = Some(2)

---------------------------------------------------------------------------
(* rescale_dwi *)

\* The step of the chunks of rescale_dwi.
ChunkSize == 100000

RECURSIVE np_arange(_, _, _)
\* np.arange(start, stop, step) for step > 0.
np_arange(start, stop, step) ==
    IF start >= stop THEN <<>>
    ELSE <<start>> \o np_arange(start + step, stop, step)

\* np.amin and np.amax of a non-empty array of finite floats.
np_amin(a) ==
    CHOOSE m \in {a[k] : k \in DOMAIN a} :
        \A k \in DOMAIN a : ~FloatLess(a[k], m)

np_amax(a) ==
    CHOOSE m \in {a[k] : k \in DOMAIN a} :
        \A k \in DOMAIN a : ~FloatLess(m, a[k])

rescale_intensity_plus(val, slp, imax, bmax) ==
    FloatAdd(imax, FloatMul(slp, FloatSub(bmax, val)))

\* _rescale_intensity: in_max - slope * (bc_max - val)
rescale_intensity(val, slp, imax, bmax) ==
    FloatSub(imax, FloatMul(slp, FloatSub(bmax, val)))

SlopeInverted(imin, imax, bmin, bmax) ==
    FloatDiv(FloatSub(bmax, bmin), FloatSub(imax, imin))

\* slope = (in_max - in_min) / (bc_max - bc_min)
Slope(imin, imax, bmin, bmax) ==
    FloatDiv(FloatSub(imax, imin), FloatSub(bmax, bmin))

\* The boundaries without the final np.append.
ChunksNoAppend(n) == Arr(np_arange(0, n, ChunkSize))

\* chunk = np.append(np.arange(0, len(in_data), 100000), len(in_data))
Chunks(n) == Arr(np_arange(0, n, ChunkSize) \o <<n>>)

\* The intensities of the test inputs.
InValues == {-1, 0, 4}
BcValues == {1, 2, 4}

\* The call rescale_dwi(in_data, bc_data) on arrays of n entries along the
\* first axis.
InitRescale ==
    \E n \in 0 .. MaxRescaleLen :
      \E a \in [0 .. n - 1 -> InValues], b \in [0 .. n - 1 -> BcValues] :
        /\ pc = "rescale_start" /\ raised = "none"
        /\ in_data = [k \in 0 .. n - 1 |-> ToFloat(a[k])]
        /\ bc_data = [k \in 0 .. n - 1 |-> ToFloat(b[k])]
        /\ bc_arg = [k \in 0 .. n - 1 |-> ToFloat(b[k])]
        /\ in_min = Unset /\ in_max = Unset /\ bc_min = Unset
        /\ bc_max = Unset /\ slope = Unset /\ chunk = Unset /\ i = Unset
        /\ bvals = Unset /\ bvecs = Unset
        /\ IdleIo /\ IdleShell /\ IdleB0 /\ IdleGrad /\ IdleScripts

otherThanRescale == <<reads, ioVars, tableVars, shellVars, b0Vars, gradVars,
                      scriptVars>>

\* Lines 58-66: the ranges, the slope and the chunk boundaries.  np.amin of
\* an empty array raises ValueError.
RescaleStart ==
    /\ pc = "rescale_start"
    /\ IF Size(in_data) = 0
       THEN /\ raised' = "ValueError" /\ pc' = "raised"
            /\ UNCHANGED <<in_min, in_max, bc_min, bc_max, slope, chunk, i>>
       ELSE /\ in_min' = np_amin(in_data)
            /\ in_max' = np_amax(in_data)
            /\ bc_min' = np_amin(bc_data)
            /\ bc_max' = np_amax(bc_data)
            /\ slope' = Slope(in_min', in_max', bc_min', bc_max')
            /\ chunk' = Chunks(Size(in_data))
            /\ i' = 0
            /\ pc' = "rescale_loop"
            /\ UNCHANGED raised
    /\ UNCHANGED <<in_data, bc_data, bc_arg, otherThanRescale>>

\* Lines 67-72: one chunk, rescaled and written back in place.
RescaleChunk ==
    /\ pc = "rescale_loop" /\ i < Size(chunk) - 1
    /\ bc_data' = [k \in DOMAIN bc_data |->
                     IF chunk[i] <= k /\ k < chunk[i + 1]
                     THEN rescale_intensity(bc_data[k], slope, in_max, bc_max)
                     ELSE bc_data[k]]
    /\ i' = i + 1
    /\ UNCHANGED <<pc, raised, in_data, bc_arg, in_min, in_max, bc_min,
                   bc_max, slope, chunk, otherThanRescale>>

\* Line 74: return bc_data.
RescaleReturn ==
    /\ pc = "rescale_loop" /\ i = Size(chunk) - 1
    /\ pc' = "done"
    /\ UNCHANGED <<raised, rescaleVars, otherThanRescale>>

NextRescale == RescaleStart \/ RescaleChunk \/ RescaleReturn

SpecRescale == InitRescale /\ [][NextRescale]_vars

---------------------------------------------------------------------------
(* Claims about rescale_dwi, checked under SpecRescale. *)

\* The inputs are floats with integral values: their numerators.
IntMin(a) == CHOOSE m \in {a[k][1] : k \in DOMAIN a} :
                \A k \in DOMAIN a : m <= a[k][1]

IntMax(a) == CHOOSE m \in {a[k][1] : k \in DOMAIN a} :
                \A k \in DOMAIN a : a[k][1] <= m

\* C9: for a non-constant bias field every element v of bc_data becomes
\* in_max - (in_max - in_min) / (bc_max - bc_min) * (bc_max - v), and the
\* maximum and minimum of the result are those of in_data.
C9_RescaledToInputRange ==
    (pc = "done" /\ IntMin(bc_arg) < IntMax(bc_arg)) =>
      LET imin == IntMin(in_data)
          imax == IntMax(in_data)
          bmin == IntMin(bc_arg)
          bmax == IntMax(bc_arg)
      IN  /\ \A k \in DOMAIN bc_data :
                /\ bc_data[k][2] > 0
                /\ bc_data[k][1] * (bmax - bmin) =
                     bc_data[k][2] * (imax * (bmax - bmin)
                         - (imax - imin) * (bmax - bc_arg[k][1]))
          /\ np_amax(bc_data) = ToFloat(imax)
          /\ np_amin(bc_data) = ToFloat(imin)

\* A bias field with three different values and an input of a different
\* range: the middle value is mapped to a fraction.
C9_Witness ==
    /\ pc = "done" /\ Size(bc_arg) = 3
    /\ bc_arg = Arr(<<ToFloat(2), ToFloat(4), ToFloat(1)>>)
    /\ in_data = Arr(<<ToFloat(4), ToFloat(-1), ToFloat(0)>>)
    /\ bc_data = Arr(<<Quotient(2, 3), ToFloat(4), ToFloat(-1)>>)

---------------------------------------------------------------------------
(* save_gradient_sampling_mrtrix and save_gradient_sampling_fsl *)

\* The decimals of '{:.8f}' / '%.8f' (b-vectors) and of '%.3f' (b-values).
BvecDecimals == 8
BvalDecimals == 3

\* The test inputs carry one more decimal than the format that rounds them:
\* a b-vector component x stands for x / 10^9, a b-value b for b / 10^4.
BvecDigits == BvecDecimals + 1
BvalDigits == BvalDecimals + 1

\* A number written as decimal text: mant / 10^dec, with dec decimals.
Text(mant, dec) == [mant |-> mant, dec |-> dec]

\* Round-to-nearest division by m > 0 (the inputs hold no tie).
RoundDiv(x, m) ==
    IF x >= 0 THEN (x + m \div 2) \div m ELSE -((-x + m \div 2) \div m)

FormatFixedTruncating(x, digits, decimals) ==
    Text(Sign(x) * (Abs(x) \div (10 ^ (digits - decimals))), decimals)

\* '%.<decimals>f' of the number x / 10^digits.
FormatFixed(x, digits, decimals) ==
    Text(RoundDiv(x, 10 ^ (digits - decimals)), decimals)

\* '{:}' of the number x / 10^digits: the digits of the number itself.
FormatRepr(x, digits) == Text(x, digits)

MrtrixLineOwnIndex(vecs, sidx, vals, k) ==
    <<FormatFixed(vecs[0][k], BvecDigits, BvecDecimals),
      FormatFixed(vecs[1][k], BvecDigits, BvecDecimals),
      FormatFixed(vecs[2][k], BvecDigits, BvecDecimals),
      FormatRepr(vals[Min2(k, Size(vals) - 1)], BvalDigits)>>

\* Line idx of the MRtrix file: '{:.8f} {:.8f} {:.8f} {:}'
MrtrixLine(vecs, sidx, vals, k) ==
    <<FormatFixed(vecs[0][k], BvecDigits, BvecDecimals),
      FormatFixed(vecs[1][k], BvecDigits, BvecDecimals),
      FormatFixed(vecs[2][k], BvecDigits, BvecDecimals),
      FormatRepr(vals[sidx[k]], BvalDigits)>>

\* The file written by save_gradient_sampling_mrtrix: one line per column
\* of bvecs.
MrtrixFile(vecs, sidx, vals) ==
    [k \in DOMAIN vecs[0] |-> MrtrixLine(vecs, sidx, vals, k)]

\* np.savetxt(filename_bvec, bvecs, fmt='%.8f'): one line per row.
FslBvecFile(vecs) ==
    [r \in DOMAIN vecs |->
        [k \in DOMAIN vecs[r] |->
            FormatFixed(vecs[r][k], BvecDigits, BvecDecimals)]]

\* np.savetxt(filename_bval, np.array([bvals[idx] for idx in
\* shell_idx])[None, :], fmt='%.3f'): a single line.
FslBvalFile(sidx, vals) ==
    Arr(<<[k \in DOMAIN sidx |->
             FormatFixed(vals[sidx[k]], BvalDigits, BvalDecimals)]>>)

\* The b-vectors of the test inputs (in 10^-9): axes, a diagonal and a
\* vector with nine significant decimals.
BvecDomain == {<<1000000000, 0, 0>>, <<0, -707106781, 707106781>>,
               <<577350269, 577350269, -577350269>>}

\* The b-values of the test inputs (in 10^-4): 0, 1000, 1000.0004, 2000.5.
GradBvalDomain == {0, 10000000, 10000004, 20005000}

\* A gradient table of n directions on one or two shells, and no file yet.
InitGrad ==
    \E n \in 1 .. MaxDirections, ns \in 1 .. 2 :
      \E cols \in [0 .. n - 1 -> BvecDomain],
         vals \in [0 .. ns - 1 -> GradBvalDomain],
         sidx \in [0 .. n - 1 -> 0 .. ns - 1] :
        /\ pc = "grad" /\ raised = "none"
        /\ bvecs = [r \in 0 .. 2 |-> [k \in 0 .. n - 1 |-> cols[k][r + 1]]]
        /\ bvals = vals
        /\ shell_idx = sidx
        /\ files = [f \in {} |-> <<>>]
        /\ IdleIo /\ IdleShell /\ IdleB0 /\ IdleRescale /\ IdleScripts

otherThanGrad == <<pc, raised, reads, ioVars, tableVars, shellVars, b0Vars,
                   rescaleVars, shell_idx, scriptVars>>

WriteFile(fs, name, content) ==
    [f \in DOMAIN fs \cup {name} |-> IF f = name THEN content ELSE fs[f]]

\* save_gradient_sampling_mrtrix(bvecs, shell_idx, bvals, "table.b")
SaveGradientSamplingMrtrix ==
    /\ pc = "grad" /\ "table.b" \notin DOMAIN files
    /\ files' = WriteFile(files, "table.b",
                          MrtrixFile(bvecs, shell_idx, bvals))
    /\ UNCHANGED otherThanGrad

\* save_gradient_sampling_fsl(bvecs, shell_idx, bvals, "table.bval",
\* "table.bvec")
SaveGradientSamplingFsl ==
    /\ pc = "grad" /\ "table.bval" \notin DOMAIN files
    /\ files' = WriteFile(WriteFile(files, "table.bvec", FslBvecFile(bvecs)),
                          "table.bval", FslBvalFile(shell_idx, bvals))
    /\ UNCHANGED otherThanGrad

NextGrad == SaveGradientSamplingMrtrix \/ SaveGradientSamplingFsl

SpecGrad == InitGrad /\ [][NextGrad]_vars

---------------------------------------------------------------------------
(* Claims about the gradient-table writers, checked under SpecGrad. *)

\* The text t denotes the number x / 10^digits.
Denotes(t, x, digits) ==
    /\ t.dec <= digits
    /\ t.mant * 10 ^ (digits - t.dec) = x

\* The text t denotes x / 10^digits rounded to the decimals of t.
DenotesRounded(t, x, digits) ==
    LET scaled == t.mant * 10 ^ (digits - t.dec)
    IN  /\ t.dec <= digits
        /\ 2 * Abs(scaled - x) < 10 ^ (digits - t.dec)

SameNumber(t, u) ==
    LET d == IF t.dec >= u.dec THEN t.dec ELSE u.dec
    IN  t.mant * 10 ^ (d - t.dec) = u.mant * 10 ^ (d - u.dec)

BothWritten == {"table.b", "table.bval"} \subseteq DOMAIN files

NbDirections == Size(bvecs[0])

\* C10 as stated: N lines, line idx holding the components of column idx
\* and bvals[shell_idx[idx]]; one row of b-values whose idx-th value is
\* bvals[shell_idx[idx]]; the same b-value in both formats.
C10_AsStated ==
    BothWritten =>
      LET mr == files["table.b"]
          bv == files["table.bval"]
      IN  /\ DOMAIN mr = 0 .. NbDirections - 1
          /\ DOMAIN bv = {0}
          /\ DOMAIN bv[0] = 0 .. NbDirections - 1
          /\ \A k \in DOMAIN mr :
               /\ \A r \in 0 .. 2 :
                    Denotes(mr[k][r + 1], bvecs[r][k], BvecDigits)
               /\ Denotes(mr[k][4], bvals[shell_idx[k]], BvalDigits)
               /\ Denotes(bv[0][k], bvals[shell_idx[k]], BvalDigits)
               /\ SameNumber(mr[k][4], bv[0][k])

\* C10 amended: the components are written rounded to 8 decimals, the
\* MRtrix b-value in full and the FSL b-value rounded to 3 decimals, so the
\* FSL b-value of a direction is the MRtrix one rounded to 3 decimals.
C10_SameTableUpToRounding ==
    BothWritten =>
      LET mr == files["table.b"]
          bv == files["table.bval"]
      IN  /\ DOMAIN mr = 0 .. NbDirections - 1
          /\ DOMAIN bv = {0}
          /\ DOMAIN bv[0] = 0 .. NbDirections - 1
          /\ \A k \in DOMAIN mr :
               /\ \A r \in 0 .. 2 :
                    /\ mr[k][r + 1].dec = BvecDecimals
                    /\ DenotesRounded(mr[k][r + 1], bvecs[r][k], BvecDigits)
               /\ Denotes(mr[k][4], bvals[shell_idx[k]], BvalDigits)
               /\ bv[0][k].dec = BvalDecimals
               /\ DenotesRounded(bv[0][k], bvals[shell_idx[k]], BvalDigits)
               /\ DenotesRounded(bv[0][k], mr[k][4].mant, mr[k][4].dec)
               /\ bvals[shell_idx[k]] % 10 = 0 =>
                    SameNumber(mr[k][4], bv[0][k])

\* Two directions on two shells, the second direction on the first shell,
\* whose b-value has four decimals; both files written.
C10_Witness ==
    /\ BothWritten /\ NbDirections = 2
    /\ shell_idx = Arr(<<1, 0>>)
    /\ bvals = Arr(<<10000004, 20005000>>)
    /\ files["table.b"][0][4] = Text(20005000, 4)
    /\ files["table.bval"][0][1] = Text(1000000, 3)

\* ---------------------------------------------------------------------------
\* scripts/scil_remove_invalid_streamlines.py : main
\* ---------------------------------------------------------------------------

MaxStreamlines == 3

\* Dimensions of the reference volume, in voxels, one entry per axis.
Dimensions == <<2, 3>>

\* The streamlines a tractogram is made of: sequences of voxel-space points.
StreamlineShapes ==
    { << <<0, 0>> >>,
      << <<3, 0>> >>,
      << <<0, 0>>, <<2, 3>> >>,
      << <<0, 0>>, <<1, 4>> >>,
      << <<-1, 0>>, <<1, 1>> >>,
      << <<1, 1>>, <<1, 2>>, <<0, 1>> >> }

\* A tractogram whose k-th streamline carries per-point and per-streamline
\* data that are particular to k.
Tractogram(strs) ==
    [ streamlines         |-> strs,
      data_per_point      |-> [k \in DOMAIN strs |->
                                 [j \in 1 .. Len(strs[k]) |-> 10 * k + j]],
      data_per_streamline |-> [k \in DOMAIN strs |-> 100 + k] ]

\* len(sft)
NbStreamlines(t) == Size(t.streamlines)

\* a[indices] for a list of positions
Take(a, ind) == [k \in DOMAIN ind |-> a[ind[k]]]

\* The positions of S in increasing order.
IndexArray(S) == [k \in 0 .. Cardinality(S) - 1 |-> Kth(S, k)]

\* "In voxel space no negative coordinate and no above volume dimension
\* coordinate are possible."
IsValidStreamline(s) ==
    \A j \in 1 .. Len(s) : \A a \in 1 .. Len(Dimensions) :
        s[j][a] >= 0 /\ s[j][a] <= Dimensions[a]

ValidIndices(t) ==
    IndexArray({k \in DOMAIN t.streamlines : IsValidStreamline(t.streamlines[k])})

\* StatefulTractogram.from_sft(streamlines, sft, data_per_point, data_per_streamline)
from_sft(streamlines, dpp, dps) ==
    [ streamlines         |-> streamlines,
      data_per_point      |-> dpp,
      data_per_streamline |-> dps ]

\* sft.remove_invalid_streamlines()
remove_invalid_streamlines(t) ==
    LET ind == ValidIndices(t)
    IN  from_sft(Take(t.streamlines, ind), Take(t.data_per_point, ind),
                 Take(t.data_per_streamline, ind))

\* [i for i in range(len(sft)) if len(sft.streamlines[i]) > 1]
MultiPointIndices(t) ==
    IndexArray({k \in DOMAIN t.streamlines : Len(t.streamlines[k]) > 1})

\* range(len(sft))
AllIndices(t) == IndexArray(DOMAIN t.streamlines)

\* The selection without the test on the number of points.
TractIndicesNoSinglePointTest(t, single) ==
    AllIndices(t)

TractIndices(t, single) ==
    IF single THEN MultiPointIndices(t) ELSE AllIndices(t)

InitTract ==
    /\ pc = "tract_load"
    /\ raised = "none"
    /\ \E n \in 0 .. MaxStreamlines :
         \E strs \in [0 .. n - 1 -> StreamlineShapes] :
            in_tractogram = Tractogram(strs)
    /\ remove_single_point \in BOOLEAN
    /\ sft = Unset /\ ori_len = Unset /\ new_sft = Unset /\ removed_msg = Unset
    /\ indices = Unset /\ dwi = Unset /\ block_size = Unset /\ vol_it = Unset
    /\ reads = {}
    /\ bvals = Unset /\ bvecs = Unset
    /\ IdleShell /\ IdleB0 /\ IdleRescale /\ IdleGrad /\ IdleRish
    /\ IdleBids

otherThanTract ==
    <<raised, reads, dwi, block_size, vol_it, tableVars, shellVars, b0Vars,
      rescaleVars, shell_idx, in_tractogram, remove_single_point, rishVars,
      bidsVars>>

\* sft = load_tractogram_with_reference(...); ori_len = len(sft)
TractLoad ==
    /\ pc = "tract_load"
    /\ sft' = in_tractogram
    /\ ori_len' = NbStreamlines(in_tractogram)
    /\ pc' = "tract_remove_invalid"
    /\ UNCHANGED <<otherThanTract, indices, new_sft, removed_msg, files>>

TractRemoveInvalid ==
    /\ pc = "tract_remove_invalid"
    /\ sft' = remove_invalid_streamlines(sft)
    /\ pc' = "tract_select"
    /\ UNCHANGED <<otherThanTract, ori_len, indices, new_sft, removed_msg, files>>

TractSelect ==
    /\ pc = "tract_select"
    /\ indices' = TractIndices(sft, remove_single_point)
    /\ new_sft' = from_sft(Take(sft.streamlines, indices'),
                           Take(sft.data_per_point, indices'),
                           Take(sft.data_per_streamline, indices'))
    /\ pc' = "tract_save"
    /\ UNCHANGED <<otherThanTract, sft, ori_len, removed_msg, files>>

\* logging.warning('Removed {} invalid streamlines.'); save_tractogram(...)
TractSave ==
    /\ pc = "tract_save"
    /\ removed_msg' = ori_len - NbStreamlines(new_sft)
    /\ files' = [f \in {"output_name"} |-> new_sft]
    /\ pc' = "tract_done"
    /\ UNCHANGED <<otherThanTract, sft, ori_len, indices, new_sft>>

NextTract == TractLoad \/ TractRemoveInvalid \/ TractSelect \/ TractSave

SpecTract == InitTract /\ [][NextTract]_vars

TractSaved == pc = "tract_done"

\* The positions, in the input tractogram, of the streamlines that respect
\* the bounding box and, under --remove_single_point, have several points.
ExpectedKept ==
    {k \in DOMAIN in_tractogram.streamlines :
        /\ \A j \in 1 .. Len(in_tractogram.streamlines[k]) :
             /\ in_tractogram.streamlines[k][j][1] \in 0 .. Dimensions[1]
             /\ in_tractogram.streamlines[k][j][2] \in 0 .. Dimensions[2]
        /\ remove_single_point => Len(in_tractogram.streamlines[k]) # 1}

\* C11: the saved tractogram holds exactly the streamlines of the input that
\* respect the bounding box (under --remove_single_point, those of them with
\* more than one point), in their original order, each with its own per-point
\* and per-streamline data, and the reported number of removed streamlines
\* is the input count minus the output count.
C11_KeepsValidInOrder ==
    TractSaved =>
      LET out == files["output_name"]
          n   == Cardinality(ExpectedKept)
      IN  /\ DOMAIN out.streamlines = 0 .. n - 1
          /\ DOMAIN out.data_per_point = 0 .. n - 1
          /\ DOMAIN out.data_per_streamline = 0 .. n - 1
          /\ \A k \in 0 .. n - 1 :
               LET o == Kth(ExpectedKept, k)
               IN  /\ out.streamlines[k] = in_tractogram.streamlines[o]
                   /\ out.data_per_point[k] = in_tractogram.data_per_point[o]
                   /\ out.data_per_streamline[k] =
                          in_tractogram.data_per_streamline[o]
          /\ remove_single_point =>
               \A k \in DOMAIN out.streamlines : Len(out.streamlines[k]) > 1
          /\ removed_msg = NbStreamlines(in_tractogram) - NbStreamlines(out)

\* An invalid streamline first, a valid single point second and a valid
\* streamline of three points last, saved under --remove_single_point: only
\* the last one is kept, with the data of position 2, and 2 are reported.
C11_Witness ==
    /\ TractSaved /\ remove_single_point
    /\ NbStreamlines(in_tractogram) = 3
    /\ ~ IsValidStreamline(in_tractogram.streamlines[0])
    /\ Len(in_tractogram.streamlines[1]) = 1
    /\ IsValidStreamline(in_tractogram.streamlines[1])
    /\ Len(in_tractogram.streamlines[2]) = 3
    /\ NbStreamlines(files["output_name"]) = 1
    /\ files["output_name"].data_per_streamline[0] = 102
    /\ removed_msg = 2

\* ---------------------------------------------------------------------------
\* scripts/scil_compute_rish_from_sh.py : main
\* ---------------------------------------------------------------------------

MaxShOrder == 10

\* The voxels of the SH image.
Voxels == {0, 1}

\* Number of SH coefficients of an image of maximal order L.
NbCoeffs(L, full) ==
    IF full THEN (L + 1) * (L + 1) ELSE ((L + 1) * (L + 2)) \div 2

\* An SH image of maximal order L, the coefficients differing between
\* voxels by the shift s.
ShImage(L, full, s) ==
    [v \in Voxels |->
        [c \in 0 .. NbCoeffs(L, full) - 1 |-> ((c + v * s) % 4) - 1]]

\* The content of a file that is there before the script runs.
OldContent == [v \in Voxels |-> -1]

order_from_ncoef(n, full) ==
    CHOOSE L \in 0 .. n : NbCoeffs(L, full) = n /\ (full \/ L % 2 = 0)

\* sorted(np.unique(order_ids)): 0, 2, .., L or, with a full basis, 0, 1, .., L
OrderIds(L, full) ==
    [k \in 0 .. (IF full THEN L ELSE L \div 2) |->
        IF full THEN k ELSE 2 * k]

\* Position of the first coefficient of order l; the order has 2 l + 1 of them.
OrderPosition(l, full) ==
    IF full THEN l * l ELSE ((l - 1) * l) \div 2

RECURSIVE SumSquares(_, _, _)
SumSquares(row, lo, hi) ==
    IF lo > hi THEN 0
    ELSE row[lo] * row[lo] + SumSquares(row, lo + 1, hi)

\* The energy of order l in one voxel: the sum of its squared coefficients.
Energy(row, l, full) ==
    SumSquares(row, OrderPosition(l, full), OrderPosition(l, full) + 2 * l)

\* rish, orders = compute_rish(sh, mask, full_basis=args.full_basis)
compute_rish(sh_data, full) ==
    LET L   == order_from_ncoef(Size(sh_data[0]), full)
        ids == OrderIds(L, full)
    IN  [ rish   |-> [v \in Voxels |->
                        [k \in DOMAIN ids |-> Energy(sh_data[v], ids[k], full)]],
          orders |-> ids ]

\* "{}{}.nii.gz".format(args.out_prefix, order_id)
Fname(prefix, order_id) == prefix \o ToString(order_id) \o ".nii.gz"

\* rish[..., i] with the first feature whatever i is
RishSliceFirst(r, k) == [v \in Voxels |-> r[v][0]]

\* rish[..., i]
RishSlice(r, k) == [v \in Voxels |-> r[v][k]]

\* nib.save(img, fname): the file is created or replaced
Save(fs, fname, content) ==
    [f \in DOMAIN fs \cup {fname} |-> IF f = fname THEN content ELSE fs[f]]

Prefixes == {"rish", "rish.nii.gz", "out/r1"}

\* What the output directory may hold before the run.
ExistingNames(prefix) ==
    { {}, {Fname(prefix, 0)}, {Fname(prefix, 2)}, {"mask.nii.gz"} }

InitRish ==
    /\ pc = "rish_start"
    /\ raised = "none"
    /\ full_basis \in BOOLEAN
    /\ overwrite \in BOOLEAN
    /\ out_prefix \in Prefixes
    /\ existing \in { E \cup I : E \in ExistingNames(out_prefix),
                                 I \in {{}, {"sh.nii.gz"}} }
    /\ \E L \in 0 .. MaxShOrder, s \in 0 .. 2 :
         /\ full_basis \/ L % 2 = 0
         /\ files = [f \in existing |->
                       IF f = "sh.nii.gz" THEN ShImage(L, full_basis, s)
                       ELSE OldContent]
    /\ sh = Unset /\ rish = Unset /\ orders = Unset /\ i = Unset
    /\ shell_idx = Unset
    /\ in_data = Unset /\ bc_data = Unset /\ in_min = Unset /\ in_max = Unset
    /\ bc_min = Unset /\ bc_max = Unset /\ slope = Unset /\ chunk = Unset
    /\ bc_arg = Unset
    /\ bvals = Unset /\ bvecs = Unset
    /\ IdleIo /\ IdleShell /\ IdleB0 /\ IdleTract /\ IdleBids

otherThanRish ==
    <<reads, ioVars, tableVars, shellVars, b0Vars, in_data, bc_data, in_min,
      in_max, bc_min, bc_max, slope, chunk, bc_arg, shell_idx, tractVars,
      existing, full_basis, out_prefix, overwrite, bidsVars>>

\* assert_inputs_exist, nib.load, compute_rish
RishStart ==
    /\ pc = "rish_start"
    /\ IF "sh.nii.gz" \notin DOMAIN files
       THEN /\ raised' = "SystemExit"
            /\ pc' = "raised"
            /\ UNCHANGED <<sh, rish, orders, i>>
       ELSE /\ sh' = files["sh.nii.gz"]
            /\ rish' = compute_rish(sh', full_basis).rish
            /\ orders' = compute_rish(sh', full_basis).orders
            /\ i' = 0
            /\ pc' = "rish_loop"
            /\ UNCHANGED raised
    /\ UNCHANGED <<otherThanRish, files>>

\* One iteration of "for i, order_id in enumerate(orders)".
RishSave ==
    /\ pc = "rish_loop"
    /\ i < Size(orders)
    /\ LET fname == Fname(out_prefix, orders[i])
       IN  IF fname \in DOMAIN files /\ ~ overwrite
           THEN /\ raised' = "SystemExit"
                /\ pc' = "raised"
                /\ UNCHANGED <<files, i>>
           ELSE /\ files' = Save(files, fname, RishSlice(rish, i))
                /\ i' = i + 1
                /\ UNCHANGED <<raised, pc>>
    /\ UNCHANGED <<otherThanRish, sh, rish, orders>>

RishReturn ==
    /\ pc = "rish_loop"
    /\ i = Size(orders)
    /\ pc' = "rish_done"
    /\ UNCHANGED <<otherThanRish, raised, sh, rish, orders, i, files>>

NextRish == RishStart \/ RishSave \/ RishReturn

SpecRish == InitRish /\ [][NextRish]_vars

\* The maximal order of the SH image the script is run on.
InputShOrder ==
    LET n == Size(files["sh.nii.gz"][0])
    IN  CHOOSE L \in 0 .. n :
          IF full_basis THEN (L + 1) * (L + 1) = n
          ELSE L % 2 = 0 /\ (L + 1) * (L + 2) = 2 * n

\* The orders of the features: all of 0 .. L with a full basis, the even
\* ones otherwise.
ExpectedOrders == {l \in 0 .. InputShOrder : full_basis \/ l % 2 = 0}

\* The SH image exists and none of the files to be written does.
RishPrecondition ==
    /\ "sh.nii.gz" \in existing
    /\ \A l \in ExpectedOrders : Fname(out_prefix, l) \notin existing

\* C12: run on an existing SH image with a prefix for which no output file
\* exists, the script raises nothing and, when it has terminated, the files
\* it created are exactly one per SH order, '<out_prefix><order>.nii.gz',
\* the file of an order holding the energy of that order in every voxel,
\* and the files that were there are left as they were.
C12_OneFilePerOrder ==
    (pc \in {"rish_start", "rish_loop", "rish_done", "raised"}
       /\ RishPrecondition) =>
      /\ raised = "none" /\ pc # "raised"
      /\ pc = "rish_done" =>
           /\ DOMAIN files \ existing =
                 {Fname(out_prefix, l) : l \in ExpectedOrders}
           /\ Cardinality(DOMAIN files \ existing) =
                 Cardinality(ExpectedOrders)
           /\ Size(orders) = Cardinality(ExpectedOrders)
           /\ \A k \in DOMAIN orders :
                /\ orders[k] = Kth(ExpectedOrders, k)
                /\ files[Fname(out_prefix, orders[k])] =
                     [v \in Voxels |-> rish[v][k]]
                /\ \A v \in Voxels :
                     rish[v][k] =
                       LET l  == orders[k]
                           lo == IF full_basis THEN l * l
                                 ELSE (l * (l - 1)) \div 2
                           F[c \in lo - 1 .. lo + 2 * l] ==
                               IF c < lo THEN 0
                               ELSE F[c - 1] + sh[v][c] * sh[v][c]
                       IN  F[lo + 2 * l]
           /\ \A f \in existing :
                f \in DOMAIN files
                  /\ (f # "sh.nii.gz" => files[f] = OldContent)

\* A symmetric image of order 10 saved under a prefix that itself ends in
\* '.nii.gz', next to an unrelated file: six files, the last one of order 10,
\* whose content differs from that of order 0.
C12_Witness ==
    /\ pc = "rish_done" /\ RishPrecondition
    /\ ~ full_basis /\ out_prefix = "rish.nii.gz"
    /\ "mask.nii.gz" \in existing
    /\ Size(orders) = 6
    /\ "rish.nii.gz10.nii.gz" \in DOMAIN files
    /\ files["rish.nii.gz10.nii.gz"] # files["rish.nii.gz0.nii.gz"]
    /\ Cardinality(DOMAIN files \ existing) = 6

\* ---------------------------------------------------------------------------
\* scripts/scil_validate_bids.py : get_data, main
\* ---------------------------------------------------------------------------

MaxAssociations == 2

\* The dictionary literal of lines 25-34: a key that is written twice keeps
\* its last value.
conversion ==
    ("i" :> "x-") @@ ("j" :> "y") @@ ("j-" :> "y-") @@ ("k" :> "z-")
      @@ ("LR" :> "x") @@ ("RL" :> "x-") @@ ("AP" :> "y") @@ ("PA" :> "y-")

\* phase_encoding_direction[:-1] for the axes with a minus sign
StripMinus(ped) == CHOOSE p \in {"i", "j", "k"} : p \o "-" = ped

get_opposite_phase_encoding_direction(ped) ==
    IF ped \in {"i-", "j-", "k-"} THEN StripMinus(ped) ELSE ped \o "-"

\* direction[::-1]
ReverseDirection(d) ==
    CASE d = "AP" -> "PA" [] d = "PA" -> "AP"
      [] d = "LR" -> "RL" [] d = "RL" -> "LR"

\* A BIDSFile: its path, its entities, and, for a DWI, the gradient files
\* that layout.get_bvec and layout.get_bval return for its path.
BIDSFile(path, suffix, entities) ==
    [ path |-> path, suffix |-> suffix, entities |-> entities,
      bvec |-> path \o ".bvec", bval |-> path \o ".bval" ]

get_bvec(f) == f.bvec

get_bval(f) == f.bval

DwiAP    == BIDSFile("dir-AP_dwi", "dwi",
                     ("PhaseEncodingDirection" :> "j") @@ ("direction" :> "AP"))
DwiPA    == BIDSFile("dir-PA_dwi", "dwi",
                     ("PhaseEncodingDirection" :> "j-") @@ ("direction" :> "PA"))
DwiJ     == BIDSFile("run-1_dwi", "dwi", ("PhaseEncodingDirection" :> "j"))
DwiJRev  == BIDSFile("run-2_dwi", "dwi", ("PhaseEncodingDirection" :> "j-"))
DwiSes   == BIDSFile("ses-1_run-2_dwi", "dwi",
                     ("PhaseEncodingDirection" :> "j-") @@ ("session" :> 1)
                       @@ ("run" :> 2) @@ ("TotalReadoutTime" :> 50))
DwiIRev  == BIDSFile("acq-i_dwi", "dwi", ("PhaseEncodingDirection" :> "i-"))
DwiNoPE  == BIDSFile("acq-n_dwi", "dwi", ("direction" :> "AP"))

EpiAP    == BIDSFile("dir-AP_epi", "epi",
                     ("PhaseEncodingDirection" :> "j") @@ ("direction" :> "AP"))
EpiPA    == BIDSFile("dir-PA_epi", "epi",
                     ("PhaseEncodingDirection" :> "j-") @@ ("direction" :> "PA"))
SbrefAP  == BIDSFile("dir-AP_sbref", "sbref",
                     ("PhaseEncodingDirection" :> "j") @@ ("direction" :> "AP"))
SbrefPA  == BIDSFile("dir-PA_sbref", "sbref",
                     ("PhaseEncodingDirection" :> "j-") @@ ("direction" :> "PA"))

T1w      == BIDSFile("T1w", "T1w", <<>>)
T1wBis   == BIDSFile("acq-b_T1w", "T1w", <<>>)
T1wSes1  == BIDSFile("ses-1_T1w", "T1w", ("session" :> 1))
T1wSes2  == BIDSFile("ses-2_T1w", "T1w", ("session" :> 2))

\* One entry of what associate_dwis returns, with the fmap files that
\* layout.get(IntendedFor=...) returns for its first DWI.
Association(dwis, related_files) ==
    [dwis |-> Arr(dwis), related_files |-> Arr(related_files)]

Associations ==
    { Association(<<DwiAP>>, <<>>),
      Association(<<DwiAP>>, <<EpiPA>>),
      Association(<<DwiAP>>, <<EpiAP, EpiPA>>),
      Association(<<DwiJ>>, <<EpiAP, EpiPA>>),
      Association(<<DwiSes>>, <<EpiAP, EpiPA>>),
      Association(<<DwiAP, DwiPA>>, <<SbrefAP, SbrefPA, EpiPA>>),
      Association(<<DwiJ, DwiJRev>>, <<EpiAP, EpiPA>>),
      Association(<<DwiAP, DwiPA>>, <<EpiPA>>),
      Association(<<DwiIRev>>, <<EpiAP, EpiPA>>),
      Association(<<DwiNoPE, DwiPA>>, <<EpiAP, EpiPA>>) }

\* The T1w images of the subject.
T1Lists ==
    { Arr(<<>>), Arr(<<T1w>>), Arr(<<T1w, T1wBis>>), Arr(<<T1wSes1, T1wSes2>>) }

\* fs_inputs: empty, or the three FreeSurfer files of the subject.
FsLists == { Arr(<<>>), Arr(<<"T1.mgz", "wmparc.mgz", "aparc+aseg.mgz">>) }

Has(entities, key) == key \in DOMAIN entities

Raise(exception) == [raised |-> exception, value |-> <<>>]

Return(value) == [raised |-> "none", value |-> value]

\* topup_suffix = {'epi': ['', ''], 'sbref': ['', '']}
EmptyTopupSuffix ==
    [s \in {"epi", "sbref"} |-> Arr(<<"", "">>)]

\* The loop "for curr_related in related_files" of lines 187-197, from its
\* k-th file on.
RECURSIVE AssignTopupSuffix(_, _, _, _, _)
AssignTopupSuffix(topup_suffix, related_files, k, dwi_direction, direction) ==
    IF k = Size(related_files) THEN topup_suffix
    ELSE
      LET curr_related == related_files[k]
          rel == IF direction THEN curr_related.entities["direction"]
                 ELSE curr_related.entities["PhaseEncodingDirection"]
          opp == IF direction THEN ReverseDirection(rel)
                 ELSE get_opposite_phase_encoding_direction(rel)
          next == IF dwi_direction = opp
                  THEN [topup_suffix EXCEPT
                          ![curr_related.suffix][1] = curr_related.path]
                  ELSE IF dwi_direction = rel
                  THEN [topup_suffix EXCEPT
                          ![curr_related.suffix][0] = curr_related.path]
                  ELSE topup_suffix
      IN  AssignTopupSuffix(next, related_files, k + 1, dwi_direction,
                            direction)

\* The T1w images of the session of the DWI, lines 230-235.
T1OfSession(t1_list, nSess) ==
    {k \in DOMAIN t1_list :
        Has(t1_list[k].entities, "session") =>
            t1_list[k].entities["session"] = nSess}

\* get_data(layout, nSub, dwis, t1s, fs, default_readout, clean), the
\* layout being given by the files it returns for the DWI.
get_data(related_files, nSub, dwis, t1_list, fs, default_readout, clean_flag) ==
    LET rev       == Size(dwis) = 2
        \* lines 128-140: only the second entry is ever assigned
        dwi_path  == Arr(<<"todo", IF rev THEN dwis[1].path ELSE "">>)
        bvec_path == Arr(<<"todo", IF rev THEN get_bvec(dwis[1]) ELSE "">>)
        bval_path == Arr(<<"todo", IF rev THEN get_bval(dwis[1]) ELSE "">>)
        curr_dwi  == dwis[0]
        ent       == curr_dwi.entities
        \* lines 141-144
        revKey    == IF Has(dwis[1].entities, "direction") THEN "direction"
                     ELSE "PhaseEncodingDirection"
        revHasPE  == rev /\ Has(dwis[1].entities, revKey)
        revKeyErr == revHasPE /\ dwis[1].entities[revKey] \notin DOMAIN conversion
        PE1       == IF revHasPE THEN conversion[dwis[1].entities[revKey]]
                     ELSE ""
        \* lines 146-156
        pe0KeyErr == \/ ~ Has(ent, "PhaseEncodingDirection")
                     \/ ent["PhaseEncodingDirection"] \notin DOMAIN conversion
        totalreadout == IF Has(ent, "TotalReadoutTime")
                        THEN ent["TotalReadoutTime"] ELSE default_readout
        nSess     == IF Has(ent, "session") THEN ent["session"] ELSE 0
        nRun      == IF Has(ent, "run") THEN ent["run"] ELSE 0
        \* lines 167-178
        oneFmap   == /\ Size(related_files) = 1
                     /\ related_files[0].suffix = "epi"
                     /\ Size(dwis) = 1
        direction == Has(ent, "direction")
        oneKeyErr == /\ oneFmap
                     /\ IF direction
                        THEN \/ ent["direction"] \notin DOMAIN conversion
                             \/ ~ Has(related_files[0].entities, "direction")
                        ELSE ~ Has(related_files[0].entities,
                                   "PhaseEncodingDirection")
        PE0       == IF oneFmap /\ direction THEN conversion[ent["direction"]]
                     ELSE conversion[ent["PhaseEncodingDirection"]]
        \* lines 179-210
        manyFmaps == ~ oneFmap /\ Size(related_files) >= 2
        manyKeyErr == /\ manyFmaps
                      /\ \E k \in DOMAIN related_files :
                           ~ Has(related_files[k].entities,
                                 IF direction THEN "direction"
                                 ELSE "PhaseEncodingDirection")
        dwi_direction == IF direction THEN ent["direction"]
                         ELSE ent["PhaseEncodingDirection"]
        topup_suffix == AssignTopupSuffix(EmptyTopupSuffix, related_files, 0,
                                          dwi_direction, direction)
        filled(t) == t[0] # "" /\ t[1] # ""
        topup     == IF rev
                     THEN IF filled(topup_suffix["sbref"])
                          THEN topup_suffix["sbref"]
                          ELSE IF filled(topup_suffix["epi"])
                          THEN topup_suffix["epi"]
                          ELSE Arr(<<"", "">>)
                     ELSE IF topup_suffix["epi"][1] # ""
                          THEN topup_suffix["epi"]
                          ELSE Arr(<<"", "">>)
        \* lines 217-238
        hasFs     == Size(fs) > 0
        t1_nSess  == T1OfSession(t1_list, nSess)
        t1_path   == IF hasFs THEN fs[0]
                     ELSE IF Cardinality(t1_nSess) = 1
                     THEN t1_list[CHOOSE k \in t1_nSess : TRUE].path
                     ELSE "todo"
    IN  IF revKeyErr \/ pe0KeyErr \/ oneKeyErr \/ manyKeyErr
        THEN Raise("KeyError")
        ELSE IF ~ hasFs /\ Size(t1_list) = 0 /\ clean_flag
        THEN Return(<<>>)
        ELSE IF ~ manyFmaps
        THEN Raise("UnboundLocalError")
        ELSE Return(
          [ subject    |-> nSub,
            session    |-> nSess,
            run        |-> nRun,
            t1         |-> t1_path,
            wmparc     |-> IF hasFs THEN fs[1] ELSE "",
            aparc_aseg |-> IF hasFs THEN fs[2] ELSE "",
            dwi        |-> dwi_path[0],
            bvec       |-> bvec_path[0],
            bval       |-> bval_path[0],
            rev_dwi    |-> dwi_path[1],
            rev_bvec   |-> bvec_path[1],
            rev_bval   |-> bval_path[1],
            topup      |-> topup[0],
            rev_topup  |-> topup[1],
            DWIPhaseEncodingDir     |-> PE0,
            rev_DWIPhaseEncodingDir |-> PE1,
            TotalReadoutTime        |-> totalreadout ])

\* data = [d for d in data if d]
NonEmpty(records) == SelectSeq(records, LAMBDA d : DOMAIN d # {})

InitBids ==
    /\ pc = "bids_loop"
    /\ raised = "none"
    /\ \E n \in 0 .. MaxAssociations : layout \in [1 .. n -> Associations]
    /\ t1s \in T1Lists
    /\ fs_inputs \in FsLists
    /\ fs_inputs # Arr(<<>>) => t1s = Arr(<<>>)
    /\ clean \in BOOLEAN
    /\ bids_data = <<>>
    /\ files = <<>>
    /\ shell_idx = Unset
    /\ bvals = Unset /\ bvecs = Unset
    /\ IdleIo /\ IdleShell /\ IdleB0 /\ IdleRescale /\ IdleTract /\ IdleRish

otherThanBids ==
    <<reads, ioVars, tableVars, shellVars, b0Vars, rescaleVars, shell_idx,
      tractVars, rishVars, layout, t1s, fs_inputs, clean>>

\* One iteration of "for dwi in dwis": data.append(get_data(...)), the
\* default of --readout being counted in milliseconds.
BidsGetData ==
    /\ pc = "bids_loop"
    /\ Len(bids_data) < Len(layout)
    /\ LET assoc == layout[Len(bids_data) + 1]
           r == get_data(assoc.related_files, "01", assoc.dwis, t1s,
                         fs_inputs, 62, clean)
       IN  IF r.raised # "none"
           THEN /\ raised' = r.raised
                /\ pc' = "raised"
                /\ UNCHANGED bids_data
           ELSE /\ bids_data' = Append(bids_data, r.value)
                /\ UNCHANGED <<raised, pc>>
    /\ UNCHANGED <<otherThanBids, files>>

\* Lines 414-420: the filter of --clean and json.dump.
BidsWrite ==
    /\ pc = "bids_loop"
    /\ Len(bids_data) = Len(layout)
    /\ bids_data' = IF clean THEN NonEmpty(bids_data) ELSE bids_data
    /\ files' = [f \in {"out_json"} |-> bids_data']
    /\ pc' = "bids_done"
    /\ UNCHANGED <<otherThanBids, raised>>

NextBids == BidsGetData \/ BidsWrite

SpecBids == InitBids /\ [][NextBids]_vars

BidsWritten == pc = "bids_done"

\* The records of the written JSON file.
WrittenRecords == files["out_json"]

Missing(value) == value \in {"todo", ""}

C14_AsStated ==
    BidsWritten =>
      \A k \in DOMAIN WrittenRecords :
        LET d   == layout[k].dwis
            rec == WrittenRecords[k]
        IN  /\ rec.dwi = d[0].path
            /\ rec.bvec = d[0].bvec
            /\ rec.bval = d[0].bval
            /\ Size(d) = 2 =>
                 /\ rec.rev_dwi = d[1].path
                 /\ rec.rev_bvec = d[1].bvec
                 /\ rec.rev_bval = d[1].bval

\* A forward and a reverse DWI with their fmaps and one T1w: the record has
\* the paths of the reverse DWI and placeholders for the forward one.
C14_Witness ==
    /\ BidsWritten /\ Len(layout) = 1 /\ Len(WrittenRecords) = 1
    /\ layout[1].dwis = Arr(<<DwiAP, DwiPA>>)
    /\ WrittenRecords[1].t1 = "T1w"
    /\ WrittenRecords[1].rev_dwi = "dir-PA_dwi"
    /\ WrittenRecords[1].rev_bvec = "dir-PA_dwi.bvec"
    /\ WrittenRecords[1].dwi = "todo"
    /\ WrittenRecords[1].bvec = "todo"
    /\ WrittenRecords[1].bval = "todo"

\* ---------------------------------------------------------------------------
\* rescale_dwi on arrays of several chunks.  The arrays are held as runs:
\* consecutive index ranges [lo, hi) of equal value, with the number of times
\* the range was assigned to.
\* ---------------------------------------------------------------------------

MaxChunks == 2

Run(lo, hi, val) == [lo |-> lo, hi |-> hi, val |-> val, assigned |-> 0]

\* len(a)
RunsLen(runs) == IF runs = <<>> THEN 0 ELSE runs[Len(runs)].hi

\* a[k]
ValueAt(runs, k) ==
    runs[CHOOSE r \in DOMAIN runs : runs[r].lo <= k /\ k < runs[r].hi].val

runs_amin(runs) ==
    CHOOSE m \in {runs[r].val : r \in DOMAIN runs} :
        \A r \in DOMAIN runs : ~FloatLess(runs[r].val, m)

runs_amax(runs) ==
    CHOOSE m \in {runs[r].val : r \in DOMAIN runs} :
        \A r \in DOMAIN runs : ~FloatLess(m, runs[r].val)

Max2(a, b) == IF a >= b THEN a ELSE b

\* bc_data[lo:hi] = rescale_func(bc_data[lo:hi], slope, in_max, bc_max)
RECURSIVE RescaleSlice(_, _, _, _, _, _)
RescaleSlice(runs, lo, hi, slp, imax, bmax) ==
    IF runs = <<>> THEN <<>>
    ELSE
      LET r      == Head(runs)
          before == IF r.lo < Min2(r.hi, lo)
                    THEN <<[r EXCEPT !.hi = Min2(r.hi, lo)]>> ELSE <<>>
          inside == IF Max2(r.lo, lo) < Min2(r.hi, hi)
                    THEN <<[lo |-> Max2(r.lo, lo), hi |-> Min2(r.hi, hi),
                            val |-> rescale_intensity(r.val, slp, imax, bmax),
                            assigned |-> r.assigned + 1]>>
                    ELSE <<>>
          after  == IF Max2(r.lo, hi) < r.hi
                    THEN <<[r EXCEPT !.lo = Max2(r.lo, hi)]>> ELSE <<>>
      IN  before \o inside \o after
            \o RescaleSlice(Tail(runs), lo, hi, slp, imax, bmax)

\* The lengths next to the multiples of the chunk size.
ChunkLengths ==
    {n \in {k * ChunkSize + d : k \in 0 .. MaxChunks, d \in {-1, 0, 1}} :
        n >= 0}

\* An array of n entries: v up to the cut, w from the cut on.
TwoRuns(n, cut, v, w) ==
    (IF cut > 0 THEN <<Run(0, cut, ToFloat(v))>> ELSE <<>>)
      \o (IF cut < n THEN <<Run(cut, n, ToFloat(w))>> ELSE <<>>)

\* The call rescale_dwi(in_data, bc_data) on arrays of n entries.
InitRescaleRuns ==
    \E n \in ChunkLengths :
      \E cut \in {c \in {0, 1, n \div 2, n - 1} : 0 <= c /\ c <= n} :
        \E v, w \in BcValues, a, b \in InValues :
          /\ pc = "runs_start" /\ raised = "none"
          /\ in_data = TwoRuns(n, cut, a, b)
          /\ bc_data = TwoRuns(n, cut, v, w)
          /\ bc_arg = TwoRuns(n, cut, v, w)
          /\ in_min = Unset /\ in_max = Unset /\ bc_min = Unset
          /\ bc_max = Unset /\ slope = Unset /\ chunk = Unset /\ i = Unset
          /\ bvals = Unset /\ bvecs = Unset
          /\ IdleIo /\ IdleShell /\ IdleB0 /\ IdleGrad /\ IdleScripts

\* Lines 58-66.
RescaleRunsStart ==
    /\ pc = "runs_start"
    /\ IF RunsLen(in_data) = 0
       THEN /\ raised' = "ValueError" /\ pc' = "raised"
            /\ UNCHANGED <<in_min, in_max, bc_min, bc_max, slope, chunk, i>>
       ELSE /\ in_min' = runs_amin(in_data)
            /\ in_max' = runs_amax(in_data)
            /\ bc_min' = runs_amin(bc_data)
            /\ bc_max' = runs_amax(bc_data)
            /\ slope' = Slope(in_min', in_max', bc_min', bc_max')
            /\ chunk' = Chunks(RunsLen(in_data))
            /\ i' = 0
            /\ pc' = "runs_loop"
            /\ UNCHANGED raised
    /\ UNCHANGED <<in_data, bc_data, bc_arg, otherThanRescale>>

\* Lines 67-72: one chunk, rescaled and written back in place.
RescaleRunsChunk ==
    /\ pc = "runs_loop" /\ i < Size(chunk) - 1
    /\ bc_data' = RescaleSlice(bc_data, chunk[i], chunk[i + 1], slope,
                               in_max, bc_max)
    /\ i' = i + 1
    /\ UNCHANGED <<pc, raised, in_data, bc_arg, in_min, in_max, bc_min,
                   bc_max, slope, chunk, otherThanRescale>>

\* Line 74.
RescaleRunsReturn ==
    /\ pc = "runs_loop" /\ i = Size(chunk) - 1
    /\ pc' = "runs_done"
    /\ UNCHANGED <<raised, rescaleVars, otherThanRescale>>

NextRescaleRuns == RescaleRunsStart \/ RescaleRunsChunk \/ RescaleRunsReturn

SpecRescaleRuns == InitRescaleRuns /\ [][NextRescaleRuns]_vars

\* The indices of [0, n) at the ends and next to the multiples of the chunk
\* size.
ProbeIndices(n) ==
    {k \in {0, n - 1} \cup {m * ChunkSize + d : m \in 0 .. MaxChunks + 1,
                                                d \in {-1, 0, 1}} :
        0 <= k /\ k < n}

\* The chunks [c[j], c[j + 1]) are consecutive non-empty ranges of at most
\* ChunkSize entries from 0 to n, and every probed index is in exactly one.
PartitionsAxis(c, n) ==
    /\ Size(c) >= 1
    /\ c[0] = 0 /\ c[Size(c) - 1] = n
    /\ \A j \in 0 .. Size(c) - 2 :
         c[j] < c[j + 1] /\ c[j + 1] - c[j] <= ChunkSize
    /\ \A k \in ProbeIndices(n) :
         Cardinality({j \in 0 .. Size(c) - 2 : c[j] <= k /\ k < c[j + 1]}) = 1

\* C15: the chunks partition the first axis for every length; while the
\* chunks are processed slope, in_max and bc_max stay the values computed
\* from the arrays as they were passed, every element of a processed chunk
\* has been assigned once, to the rescaled value of the element passed, and
\* every other element is untouched; at the return every element has been
\* assigned exactly once.
C15_ChunksPartition ==
    /\ pc = "runs_start" => PartitionsAxis(Chunks(RunsLen(in_data)),
                                           RunsLen(in_data))
    /\ pc \in {"runs_loop", "runs_done"} =>
         LET n    == RunsLen(in_data)
             slp0 == Slope(runs_amin(in_data), runs_amax(in_data),
                           runs_amin(bc_arg), runs_amax(bc_arg))
         IN  /\ PartitionsAxis(chunk, n)
             /\ slope = slp0
             /\ in_max = runs_amax(in_data)
             /\ bc_max = runs_amax(bc_arg)
             /\ RunsLen(bc_data) = n /\ bc_data[1].lo = 0
             /\ \A r \in DOMAIN bc_data :
                  /\ bc_data[r].lo < bc_data[r].hi
                  /\ r > 1 => bc_data[r].lo = bc_data[r - 1].hi
                  /\ IF bc_data[r].hi <= chunk[i]
                     THEN /\ bc_data[r].assigned = 1
                          /\ bc_data[r].val =
                               rescale_intensity(ValueAt(bc_arg, bc_data[r].lo),
                                                 slp0, runs_amax(in_data),
                                                 runs_amax(bc_arg))
                     ELSE /\ bc_data[r].lo >= chunk[i]
                          /\ bc_data[r].assigned = 0
                          /\ bc_data[r].val = ValueAt(bc_arg, bc_data[r].lo)
             /\ pc = "runs_done" =>
                  /\ i = Size(chunk) - 1
                  /\ \A r \in DOMAIN bc_data : bc_data[r].assigned = 1

\* Two full chunks of 100000 entries, the first entry differing from the
\* others: the three ranges of the result have each been assigned once.
C15_Witness ==
    /\ pc = "runs_done"
    /\ RunsLen(in_data) = 2 * ChunkSize
    /\ chunk = Arr(<<0, ChunkSize, 2 * ChunkSize>>)
    /\ bc_arg = <<Run(0, 1, ToFloat(1)), Run(1, 2 * ChunkSize, ToFloat(4))>>
    /\ Len(bc_data) = 3
    /\ bc_data[2].lo = 1 /\ bc_data[2].hi = ChunkSize
    /\ bc_data[3].assigned = 1
    /\ bc_data[3].val # ToFloat(4)

====
